---- MODULE Spec2Model ----
(***************************************************************************)
(* Car Cleaning Marketplace API (src/main.py, src/schemas.py).             *)
(*                                                                         *)
(* The state is the shared document store (collections "cleaner" and       *)
(* "booking"), the process-wide store handle db, the position of every     *)
(* in-flight POST /seed request, and the last response sent to a caller.   *)
(*                                                                         *)
(* Money is a Python float in the source.  Here an amount is an integer    *)
(* number of mills (1/1000 of the currency unit), so 25 is 25000 and 0.125 *)
(* is 125.  round(x, 2) returns a whole number of cents.  When the exact   *)
(* decimal value lies half-way between two cents the binary float decides  *)
(* the direction, so Round2 returns both neighbours and the handler picks  *)
(* either one.                                                             *)
(***************************************************************************)
EXTENDS Integers, Sequences, FiniteSets, TLC

VARIABLES db, cleaner, booking, nextOid, seedPc, seedIdx, last

vars == <<db, cleaner, booking, nextOid, seedPc, seedIdx, last>>

\* ------------------------------------------------------------------ bounds
\* number of POST /seed requests that may be in flight together
MaxSeedReqs == 2
\* number of bookings the store may hold
MaxBookings == 2

\* ------------------------------------------------------------- basic values
None == "None"

\* round(x, 2): two decimal places
RoundDigits == 2

MillsPerUnit == 10 * 10 * 10
MillsPerCent == MillsPerUnit \div (10 ^ RoundDigits)

\* a whole amount of currency units as mills
Units(n) == n * MillsPerUnit

\* dict.get(key, default)
Get(d, k, default) == IF k \in DOMAIN d THEN d[k] ELSE default

\* float(x): the same number as a float; amounts are mills on both sides
Float(x) == x + 0

\* --------------------------------------------------------------- ObjectId
\* A cleaner_id or booking_id string is kept as what ObjectId() reads of
\* it: its length, whether every character is a hex digit, and the number
\* the digits spell.
OidLen == 24

IdString(len, hex, value) == [len |-> len, hex |-> hex, value |-> value]

\* str(ObjectId): 24 hex characters.  The store hands out its identifiers
\* from a counter.
OidStr(n) == IdString(OidLen, TRUE, n)

\* the exception bson.errors.InvalidId, as a value no identifier equals
InvalidId == 0 - 1

\* ObjectId.is_valid for a str: 24 characters, all hex digits
IsValidOid(s) == s.len = OidLen /\ s.hex

\* ObjectId(s): raises InvalidId on a malformed string
ObjectId(s) == IF ~IsValidOid(s) THEN InvalidId ELSE s.value

\* --------------------------------------------------------------- rounding
\* x is the exact value num/den mills.  The whole cents (in mills) nearest
\* to x; both neighbours when x is exactly half-way.
Round2(num, den) ==
    LET step  == MillsPerCent * den
        lower == (num \div step) * MillsPerCent
        rem   == num % step
    IN  IF 2 * rem < step THEN {lower}
        ELSE IF 2 * rem > step THEN {lower + MillsPerCent}
        ELSE {lower, lower + MillsPerCent}

\* ------------------------------------------------------------ seed data
Service(name, description, price, minutes) ==
    [name |-> name, description |-> description, price |-> price,
     duration_minutes |-> minutes]

\* the demo list of seed_cleaners; rating in tenths, lat/lng in micro-degrees
demo ==
    << [name |-> "Sparkle Pro Detailing",
        phone |-> "+1-555-0110",
        bio |-> "Premium mobile car wash & detailing",
        photo_url |-> "https://images.unsplash.com/photo-1609137144813-7d9921338f9b?w=800",
        rating |-> 49,
        total_reviews |-> 128,
        is_available |-> TRUE,
        location |-> [lat |-> 37773972, lng |-> 0 - 122431297,
                      address |-> "San Francisco, CA"],
        base_callout_fee |-> Units(5),
        services |-> <<
            Service("Exterior Wash", "Foam wash & dry", Units(25), 30),
            Service("Interior Clean", "Vacuum & wipe down", Units(35), 45),
            Service("Full Detail", "In & Out premium detail", Units(99), 120) >>],
       [name |-> "EcoShine Mobile",
        phone |-> "+1-555-0111",
        bio |-> "Waterless eco-friendly clean",
        photo_url |-> "https://images.unsplash.com/photo-1515923162031-1d7cfbca8b89?w=800",
        rating |-> 47,
        total_reviews |-> 76,
        is_available |-> TRUE,
        location |-> [lat |-> 37784000, lng |-> 0 - 122409000,
                      address |-> "SoMa, SF"],
        base_callout_fee |-> Units(3),
        services |-> <<
            Service("Quick Wash", "15-min express", Units(15), 15),
            Service("Interior Refresh", "Vacuum & mats", Units(25), 25) >>] >>

\* ------------------------------------------- cleaners of the admin process
\* A Cleaner document as the schema admits it (price >= 0, fee >= 0,
\* duration 10..600), stored before the API starts.
Cleaner(services, fee) ==
    [name |-> "Admin Valet",
     provider_type |-> "individual",
     phone |-> None,
     bio |-> None,
     photo_url |-> None,
     rating |-> 48,
     total_reviews |-> 0,
     is_available |-> TRUE,
     location |-> [lat |-> 0, lng |-> 0, address |-> None, city |-> None],
     services |-> services,
     base_callout_fee |-> fee]

ServiceOption(name, price) == Service(name, None, price, 30)

\* service lists of the stored admin cleaner: none, a duplicated name,
\* names that differ in letter case only, whole-cent and sub-cent prices
ServiceLists ==
    { <<>>,
      <<ServiceOption("Full Detail", 45), ServiceOption("Full Detail", 19990)>>,
      <<ServiceOption("full detail", 125), ServiceOption("Full Detail", 250)>>,
      <<ServiceOption("Exterior Wash", 19990)>>,
      <<ServiceOption("Exterior Wash", 1234), ServiceOption("full detail", 5)>> }

CalloutFees == {0, 5}

\* the contents of the "cleaner" collection when the API starts
InitCatalogs ==
    { <<>> } \cup
    { << [_id |-> 1] @@ Cleaner(s, f) >> : s \in ServiceLists, f \in CalloutFees }

\* ------------------------------------------------------- document store
\* create_document(collection, data): one insert; the new document carries
\* the identifier the store generated
create_document(coll, data, oid) == Append(coll, [_id |-> oid] @@ data)

\* get_documents(collection): every stored document, in insertion order
get_documents(coll) == coll

\* find_one with the filter ignored
find_one_unfiltered(coll, oid) == IF coll = <<>> THEN <<>> ELSE << coll[1] >>

\* db[...].find_one({"_id": oid}): the first match, <<>> for Python's None
find_one(coll, oid) ==
    LET hits == {i \in 1..Len(coll) : coll[i]._id = oid}
    IN  IF hits = {} THEN <<>>
        ELSE << coll[CHOOSE i \in hits : \A j \in hits : i <= j] >>

\* db[...].count_documents({})
count_documents(coll) == Len(coll)

\* ----------------------------------------------------------- responses
StatusOk == 200
StatusBadRequest == 400
StatusNotFound == 404
StatusServerError == 500

Response(op, body, status, detail, result, calls) ==
    [op |-> op, body |-> body, status |-> status, detail |-> detail,
     result |-> result, calls |-> calls]

\* the argument of a handler that takes no request body
NoBody == [query |-> None]

NoResponse == Response("none", NoBody, 0, None, None, 0)

\* raise HTTPException(status_code=500, detail="Database not configured")
DbNotConfigured(op, body) ==
    Response(op, body, StatusServerError, "Database not configured", None, 0)

\* raise HTTPException(...) or an uncaught exception in create_booking: the
\* handler ends there and the framework answers; nothing was written
Raise_draft(response) ==
    /\ last' = response
    /\ Len(booking) < MaxBookings
    /\ booking' = Append(booking, [_id |-> nextOid, status |-> "draft"])
    /\ nextOid' = nextOid + 1
    /\ UNCHANGED <<db, cleaner, seedPc, seedIdx>>

Raise(response) ==
    /\ last' = response
    /\ UNCHANGED <<db, cleaner, booking, nextOid, seedPc, seedIdx>>

\* ------------------------------------------------------------- requests
PayloadFields ==
    {"cleaner_id", "service_name", "scheduled_time", "customer_name",
     "customer_phone", "customer_email", "address", "lat", "lng",
     "car_make", "car_model", "car_color", "car_plate", "notes"}

\* CreateBookingRequest: the declared fields, an absent optional one is
\* None, a key the model does not declare is dropped
CreateBookingRequest(body) ==
    [f \in PayloadFields |-> Get(body, f, None)]

\* a request body with the required fields only
PlainBody(cid, sname) ==
    [cleaner_id |-> cid, service_name |-> sname,
     scheduled_time |-> "2026-01-01T10:00:00",
     customer_name |-> "Ann", customer_phone |-> "555-0100"]

\* a request body with every optional field, and keys a client may add to
\* try to set the price or the status
FullBody(cid, sname) ==
    PlainBody(cid, sname) @@
    [customer_email |-> "ann@example.com", address |-> "1 Main St",
     lat |-> 37000000, lng |-> 0 - 122000000,
     car_make |-> "Fiat", car_model |-> "500", car_color |-> "red",
     car_plate |-> "ABC123", notes |-> "gate code 42",
     status |-> "confirmed", payment_status |-> "paid",
     payment_reference |-> "pay_1", service_price |-> 1, total_price |-> 1,
     commission_amount |-> 0, net_amount |-> 1]

\* ------------------------------------------------------- create_booking
\* lower-case form of a service name
CaseFold(name) ==
    CASE name = "Full Detail" -> "full detail"
      [] name = "Exterior Wash" -> "exterior wash"
      [] OTHER -> name

\* the loop without its break: the last match wins
FindService_last(cleanerDoc, service_name) ==
    LET services == Get(cleanerDoc, "services", <<>>)
        hits == {i \in 1..Len(services) :
                    Get(services[i], "name", None) = service_name}
    IN  IF hits = {} THEN <<>>
        ELSE << services[CHOOSE i \in hits : \A j \in hits : i >= j] >>

\* the loop comparing names without regard to letter case
FindService_nocase(cleanerDoc, service_name) ==
    LET services == Get(cleanerDoc, "services", <<>>)
        hits == {i \in 1..Len(services) :
                    CaseFold(Get(services[i], "name", None))
                        = CaseFold(service_name)}
    IN  IF hits = {} THEN <<>>
        ELSE << services[CHOOSE i \in hits : \A j \in hits : i <= j] >>

\* the loop over cleaner.get("services", []): first entry whose name equals
\* the requested name, <<>> for None
FindService(cleanerDoc, service_name) ==
    LET services == Get(cleanerDoc, "services", <<>>)
        hits == {i \in 1..Len(services) :
                    Get(services[i], "name", None) = service_name}
    IN  IF hits = {} THEN <<>>
        ELSE << services[CHOOSE i \in hits : \A j \in hits : i <= j] >>

ServicePrice(service) == Float(Get(service, "price", 0))

Callout(cleanerDoc) == Float(Get(cleanerDoc, "base_callout_fee", 0))

TotalPrice(service, cleanerDoc) == ServicePrice(service) + Callout(cleanerDoc)

\* commission_rate = 0.1, in thousandths
CommissionRate == 100

\* the commission cut to whole cents instead of rounded
CommissionAmount_floor(total) ==
    {((total * CommissionRate) \div (MillsPerCent * MillsPerUnit)) * MillsPerCent}

\* round(total * commission_rate, 2)
CommissionAmount(total) == Round2(total * CommissionRate, MillsPerUnit)

\* the net rounded on its own from the total: round(total * 0.9, 2)
NetAmount_independent(total, commission_amount) ==
    Round2(total * (MillsPerUnit - CommissionRate), MillsPerUnit)

\* round(total - commission_amount, 2)
NetAmount(total, commission_amount) == Round2(total - commission_amount, 1)

\* the document with the status of a paid booking
booking_doc_confirmed(payload, service_price, total, commission_amount, net_amount) ==
    [cleaner_id |-> payload.cleaner_id,
     service_name |-> payload.service_name,
     service_price |-> service_price,
     scheduled_time |-> payload.scheduled_time,
     location |-> [lat |-> payload.lat, lng |-> payload.lng,
                   address |-> payload.address],
     customer |-> [name |-> payload.customer_name,
                   phone |-> payload.customer_phone,
                   email |-> payload.customer_email],
     car |-> [make |-> payload.car_make, model |-> payload.car_model,
              color |-> payload.car_color, plate |-> payload.car_plate],
     notes |-> payload.notes,
     total_price |-> total,
     commission_rate |-> CommissionRate,
     commission_amount |-> commission_amount,
     net_amount |-> net_amount,
     status |-> "confirmed",
     payment_status |-> "unpaid",
     payment_reference |-> None]

booking_doc(payload, service_price, total, commission_amount, net_amount) ==
    [cleaner_id |-> payload.cleaner_id,
     service_name |-> payload.service_name,
     service_price |-> service_price,
     scheduled_time |-> payload.scheduled_time,
     location |-> [lat |-> payload.lat, lng |-> payload.lng,
                   address |-> payload.address],
     customer |-> [name |-> payload.customer_name,
                   phone |-> payload.customer_phone,
                   email |-> payload.customer_email],
     car |-> [make |-> payload.car_make, model |-> payload.car_model,
              color |-> payload.car_color, plate |-> payload.car_plate],
     notes |-> payload.notes,
     total_price |-> total,
     commission_rate |-> CommissionRate,
     commission_amount |-> commission_amount,
     net_amount |-> net_amount,
     status |-> "pending",
     payment_status |-> "unpaid",
     payment_reference |-> None]

BookingReceipt(booking_id, total, commission_amount, net_amount) ==
    [booking_id |-> booking_id,
     total_price |-> total,
     commission_amount |-> commission_amount,
     net_amount |-> net_amount,
     message |-> "Booking created. Proceed to payment to confirm."]

\* POST /book
create_booking(body) ==
    LET payload == CreateBookingRequest(body)
        oid     == ObjectId(payload.cleaner_id)
    IN
    IF db = None
    THEN Raise(DbNotConfigured("create_booking", body))
    ELSE IF oid = InvalidId
    THEN \* bson.errors.InvalidId is not caught: the framework answers 500
         Raise(Response("create_booking", body, StatusServerError,
                        "Internal Server Error", None, 0))
    ELSE LET found == find_one(cleaner, oid) IN
    IF found = <<>>
    THEN Raise(Response("create_booking", body, StatusNotFound,
                        "Cleaner not found", None, 1))
    ELSE LET service == FindService(found[1], payload.service_name) IN
    IF service = <<>>
    THEN Raise(Response("create_booking", body, StatusBadRequest,
                        "Service not offered by cleaner", None, 1))
    ELSE LET service_price == ServicePrice(service[1])
             total == TotalPrice(service[1], found[1])
         IN
         /\ Len(booking) < MaxBookings
         /\ \E commission_amount \in CommissionAmount(total) :
            \E net_amount \in NetAmount(total, commission_amount) :
              /\ booking' = create_document(booking,
                     booking_doc(payload, service_price, total,
                                 commission_amount, net_amount), nextOid)
              /\ nextOid' = nextOid + 1
              /\ last' = Response("create_booking", body, StatusOk, None,
                     BookingReceipt(OidStr(nextOid), total,
                                    commission_amount, net_amount), 2)
         /\ UNCHANGED <<db, cleaner, seedPc, seedIdx>>

\* ---------------------------------------------------------- list_cleaners
CleanerResponse(d) ==
    [id |-> OidStr(d._id),
     name |-> Get(d, "name", None),
     rating |-> Get(d, "rating", 0),
     total_reviews |-> Get(d, "total_reviews", 0),
     is_available |-> Get(d, "is_available", TRUE),
     photo_url |-> Get(d, "photo_url", None),
     bio |-> Get(d, "bio", None),
     services |-> Get(d, "services", <<>>),
     location |-> Get(d, "location", <<>>),
     base_callout_fee |-> Get(d, "base_callout_fee", 0)]

\* GET /cleaners (lat, lng and radius_km are accepted and not used)
list_cleaners ==
    /\ IF db = None
       THEN last' = DbNotConfigured("list_cleaners", NoBody)
       ELSE LET docs == get_documents(cleaner) IN
            last' = Response("list_cleaners", NoBody, StatusOk, None,
                        [i \in 1..Len(docs) |-> CleanerResponse(docs[i])], 1)
    /\ UNCHANGED <<db, cleaner, booking, nextOid, seedPc, seedIdx>>

\* ---------------------------------------------------------- list_bookings
\* the returned copy of a document with its _id as a string
Stringified(d) == [d EXCEPT !._id = OidStr(d._id)]

\* GET /bookings without the check of the store handle
list_bookings_unchecked ==
    /\ last' = Response("list_bookings", NoBody, StatusOk, None,
                        [i \in 1..Len(booking) |-> Stringified(booking[i])], 1)
    /\ UNCHANGED <<db, cleaner, booking, nextOid, seedPc, seedIdx>>

\* GET /bookings
list_bookings ==
    /\ IF db = None
       THEN last' = DbNotConfigured("list_bookings", NoBody)
       ELSE LET docs == get_documents(booking) IN
            last' = Response("list_bookings", NoBody, StatusOk, None,
                        [i \in 1..Len(docs) |-> Stringified(docs[i])], 1)
    /\ UNCHANGED <<db, cleaner, booking, nextOid, seedPc, seedIdx>>

\* ------------------------------------------------------------------ seed
SeedReqs == 1..MaxSeedReqs

\* POST /seed, up to the decision taken on count_documents
seed_check(r) ==
    /\ seedPc[r] = "idle"
    /\ IF db = None
       THEN /\ last' = DbNotConfigured("seed_cleaners", [request |-> r])
            /\ seedPc' = [seedPc EXCEPT ![r] = "done"]
       ELSE LET has_any == count_documents(cleaner) > 0 IN
            IF has_any
            THEN /\ last' = Response("seed_cleaners", [request |-> r], StatusOk, None,
                        [seeded |-> FALSE,
                         message |-> "Cleaners already exist"], 1)
                 /\ seedPc' = [seedPc EXCEPT ![r] = "done"]
            ELSE /\ last' = last
                 /\ seedPc' = [seedPc EXCEPT ![r] = "insert"]
    /\ UNCHANGED <<db, cleaner, booking, nextOid, seedIdx>>

\* POST /seed, one pass of the loop "for item in demo"; after the last item
\* the handler answers
seed_insert(r) ==
    /\ seedPc[r] = "insert"
    /\ cleaner' = create_document(cleaner, demo[seedIdx[r]], nextOid)
    /\ nextOid' = nextOid + 1
    /\ IF seedIdx[r] = Len(demo)
       THEN /\ seedPc' = [seedPc EXCEPT ![r] = "done"]
            /\ seedIdx' = seedIdx
            /\ last' = Response("seed_cleaners", [request |-> r], StatusOk, None,
                        [seeded |-> TRUE, count |-> Len(demo)],
                        1 + Len(demo))
       ELSE /\ seedIdx' = [seedIdx EXCEPT ![r] = seedIdx[r] + 1]
            /\ UNCHANGED <<seedPc, last>>
    /\ UNCHANGED <<db, booking>>

\* --------------------------------------------------------- specification
\* the cleaner_id strings a caller sends: the identifier of a stored
\* cleaner, a well-formed identifier the
\* store does not hold, and malformed ones
UnknownId == IdString(OidLen, TRUE, 0)
TooShortId == IdString(3, TRUE, 1)
NotHexId == IdString(OidLen, FALSE, 1)

CleanerIds ==
    {OidStr(cleaner[i]._id) : i \in 1..Len(cleaner)}
    \cup {UnknownId, TooShortId, NotHexId}

ServiceNames == {"Exterior Wash", "Full Detail", "full detail"}

\* the request bodies a caller sends: the required fields with every name,
\* and a body with every optional and undeclared key
Bodies ==
    {PlainBody(c, s) : c \in CleanerIds, s \in ServiceNames}
    \cup {FullBody(c, "Full Detail") : c \in CleanerIds}

Init ==
    /\ db \in {"Database", None}
    /\ cleaner \in (IF db = None THEN {<<>>} ELSE InitCatalogs)
    /\ booking = <<>>
    /\ nextOid = Len(cleaner) + 1
    /\ seedPc = [r \in SeedReqs |-> "idle"]
    /\ seedIdx = [r \in SeedReqs |-> 1]
    /\ last = NoResponse

\* the r-th POST /seed arrives after the earlier ones were answered
SeedTurn(r) == \A q \in SeedReqs : q < r => seedPc[q] = "done"

\* Requests of every kind interleave at the store operations; the seed
\* requests come one after another.
Next ==
    \/ \E body \in Bodies : create_booking(body)
    \/ list_cleaners
    \/ list_bookings
    \/ \E r \in SeedReqs : SeedTurn(r) /\ seed_check(r)
    \/ \E r \in SeedReqs : seed_insert(r)

Spec == Init /\ [][Next]_vars

\* The same, with the seed requests served in parallel as well (the
\* handlers are plain "def" functions, run on the framework's thread pool).
NextConcurrent ==
    \/ \E body \in Bodies : create_booking(body)
    \/ list_cleaners
    \/ list_bookings
    \/ \E r \in SeedReqs : seed_check(r)
    \/ \E r \in SeedReqs : seed_insert(r)

ConcurrentSpec == Init /\ [][NextConcurrent]_vars

\* ================================================================ claims
\* what the last response answers
Booked == last.op = "create_booking"
BookedOk == Booked /\ last.status = StatusOk

\* the stored cleaners a cleaner_id string names
CleanersNamed(cid) ==
    {i \in 1..Len(cleaner) :
        IsValidOid(cid) /\ cleaner[i]._id = cid.value}

\* the positions in a cleaner's services list that carry a name
Offers(c, sname) ==
    {k \in 1..Len(c.services) : c.services[k].name = sname}

Min(S) == CHOOSE x \in S : \A y \in S : x <= y

\* the stored bookings with the identifier a receipt gives
Persisted(booking_id) ==
    {i \in 1..Len(booking) : OidStr(booking[i]._id) = booking_id}

Abs(x) == IF x < 0 THEN 0 - x ELSE x

\* r is a whole number of cents and no other one is nearer to num/den
NearestCent(r, num, den) ==
    /\ r % MillsPerCent = 0
    /\ 2 * Abs(r * den - num) <= MillsPerCent * den

\* C1: a booking of a service that a stored cleaner offers succeeds, and the
\* returned and the persisted total_price are the price of the FIRST entry
\* of that name plus the cleaner's base_callout_fee, whatever the request
\* body carries besides.
C1_TotalIsFirstMatchPlusFee ==
    (Booked /\ db # None) =>
        \A i \in CleanersNamed(last.body.cleaner_id) :
            LET c == cleaner[i]
                ks == Offers(c, last.body.service_name)
            IN  ks # {} =>
                  /\ last.status = StatusOk
                  /\ last.result.total_price
                        = c.services[Min(ks)].price + c.base_callout_fee
                  /\ Persisted(last.result.booking_id) # {}
                  /\ \A j \in Persisted(last.result.booking_id) :
                        /\ booking[j].total_price = last.result.total_price
                        /\ booking[j].service_price = c.services[Min(ks)].price

\* C1 witness: a body carrying its own total_price booked a service whose
\* name occurs twice, with two prices, in the cleaner's list
C1_Witness ==
    /\ BookedOk
    /\ "total_price" \in DOMAIN last.body
    /\ \E i \in CleanersNamed(last.body.cleaner_id) :
         \E k1, k2 \in Offers(cleaner[i], last.body.service_name) :
            cleaner[i].services[k1].price # cleaner[i].services[k2].price

\* C2: a booking with a malformed cleaner_id is answered NotFound (404),
\* as one with a well-formed identifier that matches no cleaner.
C2_MalformedIdIsNotFound ==
    (Booked /\ db # None /\ ~IsValidOid(last.body.cleaner_id)) =>
        last.status = StatusNotFound

\* C3: a booking with a well-formed cleaner_id that matches no stored
\* cleaner is answered NotFound after the lookup alone, whatever the other
\* arguments are, and no stored booking refers to a cleaner that is not
\* stored.
C3_UnknownCleanerIsNotFound ==
    /\ (Booked /\ db # None /\ IsValidOid(last.body.cleaner_id)
            /\ CleanersNamed(last.body.cleaner_id) = {}) =>
          /\ last.status = StatusNotFound
          /\ last.detail = "Cleaner not found"
          /\ last.calls = 1
    /\ \A j \in 1..Len(booking) : CleanersNamed(booking[j].cleaner_id) # {}

\* C3 witness: a full body with an unknown identifier was refused while
\* cleaners and a booking were stored
C3_Witness ==
    /\ Booked /\ last.status = StatusNotFound
    /\ last.body.cleaner_id = UnknownId
    /\ "notes" \in DOMAIN last.body
    /\ cleaner # <<>> /\ booking # <<>>

\* C4: a booking for a stored cleaner with a service name that no entry of
\* its services list carries (a name differing in letter case only, an
\* empty list) is answered InvalidRequest (400) after the lookup alone, and
\* no stored booking names a service its cleaner does not offer.
C4_UnofferedServiceIsInvalid ==
    /\ (Booked /\ db # None) =>
          \A i \in CleanersNamed(last.body.cleaner_id) :
             Offers(cleaner[i], last.body.service_name) = {} =>
                /\ last.status = StatusBadRequest
                /\ last.detail = "Service not offered by cleaner"
                /\ last.calls = 1
    /\ \A j \in 1..Len(booking) :
          \A i \in CleanersNamed(booking[j].cleaner_id) :
             Offers(cleaner[i], booking[j].service_name) # {}

\* C4 witness: the refused name differs only in letter case from one the
\* cleaner offers
C4_Witness ==
    /\ Booked /\ last.status = StatusBadRequest
    /\ \E i \in CleanersNamed(last.body.cleaner_id) :
         \E k \in 1..Len(cleaner[i].services) :
            /\ cleaner[i].services[k].name # last.body.service_name
            /\ CaseFold(cleaner[i].services[k].name)
                  = CaseFold(last.body.service_name)

\* C4 witness of the other case: the cleaner has an empty services list
C4_WitnessEmptyList ==
    /\ Booked /\ last.status = StatusBadRequest
    /\ \E i \in CleanersNamed(last.body.cleaner_id) :
         cleaner[i].services = <<>>

\* the amounts of a booking or a receipt follow the commission rule
CommissionRule(b) ==
    /\ NearestCent(b.commission_amount, b.total_price * 10, 100)
    /\ NearestCent(b.net_amount, b.total_price - b.commission_amount, 1)
    /\ b.total_price = Units(30) =>
          b.commission_amount = Units(3) /\ b.net_amount = Units(27)
    /\ b.total_price = Units(104) =>
          b.commission_amount = 10400 /\ b.net_amount = 93600

\* C5: in every receipt and every stored booking commission_amount is
\* total_price * 0.10 rounded to cents and net_amount is total_price -
\* commission_amount rounded to cents; 30 gives 3.00 / 27.00 and 104 gives
\* 10.40 / 93.60.
C5_CommissionAndNet ==
    /\ BookedOk => CommissionRule(last.result)
    /\ \A j \in 1..Len(booking) : CommissionRule(booking[j])

\* C5 witness: the 30 scenario is stored and the 104 scenario was booked
C5_Witness ==
    /\ BookedOk /\ last.result.total_price = Units(104)
    /\ \E j \in 1..Len(booking) : booking[j].total_price = Units(30)

\* C5 witness of rounding: a booking whose exact commission lies half-way
\* between two cents was made
C5_WitnessHalfWay ==
    /\ BookedOk
    /\ (last.result.total_price * 10) % (100 * MillsPerCent)
          = 50 * MillsPerCent

\* commission and net add up to the total, to the cent
SumsToTotal(b) ==
    /\ 2 * Abs(b.commission_amount + b.net_amount - b.total_price)
          <= MillsPerCent
    /\ b.total_price % MillsPerCent = 0 =>
          b.commission_amount + b.net_amount = b.total_price

\* C6: every stored booking has commission_amount + net_amount equal to
\* total_price to 2 decimal places (exactly, when the total is a whole
\* number of cents; within half a cent otherwise), and no step changes the
\* total_price, commission_amount or net_amount of a stored booking.
C6_AmountsAddUpAndStay ==
    /\ [](\A j \in 1..Len(booking) : SumsToTotal(booking[j]))
    /\ [][\A j \in 1..Len(booking) :
            /\ j <= Len(booking')
            /\ booking'[j].total_price = booking[j].total_price
            /\ booking'[j].commission_amount = booking[j].commission_amount
            /\ booking'[j].net_amount = booking[j].net_amount]_vars

\* C6 witness: two bookings are stored, one with a total that is not a
\* whole number of cents, the seed has run and the bookings were listed
C6_Witness ==
    /\ Len(booking) = 2
    /\ \E j \in 1..Len(booking) : booking[j].total_price % MillsPerCent # 0
    /\ \E r \in SeedReqs : seedPc[r] = "done"
    /\ last.op = "list_bookings" /\ last.status = StatusOk

\* C7: every stored booking has status "pending", payment_status "unpaid"
\* and no payment_reference, whatever the request body carried.
C7_InitialStatus ==
    \A j \in 1..Len(booking) :
        /\ booking[j].status = "pending"
        /\ booking[j].payment_status = "unpaid"
        /\ booking[j].payment_reference = None

\* C7 witness: a body that carried status "confirmed" was booked
C7_Witness ==
    /\ BookedOk
    /\ "status" \in DOMAIN last.body
    /\ last.body.status = "confirmed"
    /\ Persisted(last.result.booking_id) # {}

\* C8: without a store handle every handler answers the server error
\* "Database not configured" before any store operation, returns (a seed
\* request is done, not started again), and the store is left as it was.
C8_FailFastWithoutStore ==
    db = None =>
        /\ last.op # "none" =>
              /\ last.status = StatusServerError
              /\ last.detail = "Database not configured"
              /\ last.calls = 0
        /\ cleaner = <<>> /\ booking = <<>> /\ nextOid = 1
        /\ \A r \in SeedReqs : seedPc[r] \in {"idle", "done"}

\* C8 witness: with no store handle a seed request has returned and a
\* listing was answered
C8_Witness ==
    /\ db = None
    /\ \E r \in SeedReqs : seedPc[r] = "done"
    /\ last.op = "list_bookings"

\* C8 witness, create_booking: with no store handle a booking was answered
C8_WitnessBooking == db = None /\ Booked

\* a step of create_booking: it answers as create_booking and moves no seed
\* request
BookingStep ==
    /\ last'.op = "create_booking"
    /\ seedPc' = seedPc /\ seedIdx' = seedIdx

\* C9: a create_booking that succeeds appends one document to the booking
\* collection and changes nothing else in the store; one that fails leaves
\* the whole store unchanged.
C9_SingleInsert ==
    [][BookingStep =>
         /\ cleaner' = cleaner /\ db' = db
         /\ IF last'.status = StatusOk
            THEN /\ Len(booking') = Len(booking) + 1
                 /\ SubSeq(booking', 1, Len(booking)) = booking
                 /\ nextOid' = nextOid + 1
            ELSE booking' = booking /\ nextOid' = nextOid]_vars

\* C9 witness: a booking succeeded when another one was stored
C9_Witness == BookedOk /\ Len(booking) = 2 /\ cleaner # <<>>

\* C9 witness of the failing case: a booking was refused with one stored
C9_WitnessRefused ==
    Booked /\ last.status = StatusBadRequest /\ Len(booking) = 1

\* C10: the demo cleaners are inserted at most once, in every interleaving
\* of seed requests: no demo cleaner is stored twice.
C10_SeededAtMostOnce ==
    \A k \in 1..Len(demo) :
        Cardinality({i \in 1..Len(cleaner) : cleaner[i].name = demo[k].name}) <= 1

====
